---- MODULE Spec2Model ----
(***************************************************************************)
(* A model of the HTTP action router (HttpRouter): the two-level routing   *)
(* table built by route(), the listing getRoutes(), the resolution         *)
(* lookup() and the dispatcher runRequest().                               *)
(*                                                                         *)
(* Strings that the router inspects character by character (paths, path    *)
(* prefixes, route hints) are sequences of one-character strings.  A JS    *)
(* Map is a sequence of [key, val] entries in insertion order, which is    *)
(* the order in which a Map iterates.                                      *)
(***************************************************************************)
EXTENDS Integers, Sequences, FiniteSets, TLC

VARIABLES exactRoutes, prefixRoutes, last, requests, crons

vars == <<exactRoutes, prefixRoutes, last, requests, crons>>

(***************************************************************************)
(* Bounds of the model.                                                    *)
(***************************************************************************)
\* longest path, prefix or hint string that is tried
MaxLen == 3
\* route() is not tried any more once this many routes are registered
MaxRoutes == 2
\* longest URL path and longest route hint of a dispatched request
MaxUrlLen == 2
\* the dispatches that run concurrently
MaxRequests == 2

\* the characters strings are made of
Chars == {"/", "a"}

\* UTF-16 code unit order of the characters ("/" is 0x2F, "a" is 0x61)
CharLess(c, d) == c = "/" /\ d = "a"

\* every string of at most MaxLen characters
Strings == UNION {[1..n -> Chars] : n \in 0..MaxLen}

\* the handlers (PublicHttpAction objects) that are registered
Handlers == {"H1", "H2"}

\* the method strings route() is tried with: two routable ones, HEAD and the
\* empty string
MethodInputs == {"GET", "POST", "HEAD", ""}

\* the methods lookup() is tried with
LookupMethods == {"GET", "POST", "HEAD"}

(***************************************************************************)
(* String primitives.                                                      *)
(***************************************************************************)
\* String.prototype.startsWith
StartsWith(s, p) == Len(p) <= Len(s) /\ SubSeq(s, 1, Len(p)) = p

\* String.prototype.endsWith
EndsWith(s, p) ==
    Len(p) <= Len(s) /\ SubSeq(s, Len(s) - Len(p) + 1, Len(s)) = p

\* a < b for strings, as the default comparison of Array.prototype.sort
\* orders them: by code unit at the first difference, a proper prefix first
StrLess(a, b) ==
    \E i \in 1..(Len(b)) :
        /\ i <= Len(a) + 1
        /\ SubSeq(a, 1, i - 1) = SubSeq(b, 1, i - 1)
        /\ (i = Len(a) + 1 \/ (i <= Len(a) /\ CharLess(a[i], b[i])))

\* the spelling of a method name, for the default sort of method keys
Spelling(m) ==
    CASE m = "GET" -> <<"G", "E", "T">>
      [] m = "POST" -> <<"P", "O", "S", "T">>
      [] m = "PUT" -> <<"P", "U", "T">>
      [] m = "DELETE" -> <<"D", "E", "L", "E", "T", "E">>
      [] m = "OPTIONS" -> <<"O", "P", "T", "I", "O", "N", "S">>
      [] m = "PATCH" -> <<"P", "A", "T", "C", "H">>
      [] m = "HEAD" -> <<"H", "E", "A", "D">>
      [] OTHER -> <<>>

\* position of a capital letter in the alphabet
Alphabet == <<"A", "C", "D", "E", "G", "H", "I", "L", "N", "O", "P", "S", "T", "U">>

LetterIndex(c) == CHOOSE i \in 1..Len(Alphabet) : Alphabet[i] = c

\* m < n for method names under the default sort
MethodLess(m, n) ==
    LET a == Spelling(m)
        b == Spelling(n)
    IN  \E i \in 1..(Len(b)) :
            /\ i <= Len(a) + 1
            /\ SubSeq(a, 1, i - 1) = SubSeq(b, 1, i - 1)
            /\ (i = Len(a) + 1
                \/ (i <= Len(a) /\ LetterIndex(a[i]) < LetterIndex(b[i])))

\* Array.prototype.sort (stable) of the array s; lt[a, b] says that the
\* comparator puts a before b
StableSort(s, lt) ==
    LET before(j, i) == lt[s[j], s[i]] \/ (~lt[s[i], s[j]] /\ j < i)
        rank(i) == Cardinality({j \in 1..Len(s) : before(j, i)}) + 1
    IN  [p \in 1..Len(s) |-> s[CHOOSE i \in 1..Len(s) : rank(i) = p]]

\* the elements of an array
Elems(s) == {s[i] : i \in 1..Len(s)}

\* the default comparator of Array.prototype.sort on an array of paths
ByStrLess(s) == [a \in Elems(s), b \in Elems(s) |-> StrLess(a, b)]

\* the default comparator of Array.prototype.sort on an array of methods
ByMethodLess(s) == [a \in Elems(s), b \in Elems(s) |-> MethodLess(a, b)]

\* paths.sort()
SortPaths(s) == StableSort(s, ByStrLess(s))

\* methods.sort()
SortMethods(s) == StableSort(s, ByMethodLess(s))

(***************************************************************************)
(* JS Map: entries in insertion order.                                     *)
(***************************************************************************)
MapKeys(m) == [i \in 1..Len(m) |-> m[i].key]

MapHas(m, k) == \E i \in 1..Len(m) : m[i].key = k

MapGet(m, k) == m[CHOOSE i \in 1..Len(m) : m[i].key = k].val

\* Map.prototype.set that leaves the new entry alone in the map
MapSetAlone(m, k, v) == <<[key |-> k, val |-> v]>>

\* Map.prototype.set: an existing key keeps its position
MapSet(m, k, v) ==
    IF MapHas(m, k)
    THEN [i \in 1..Len(m) |-> IF m[i].key = k THEN [key |-> k, val |-> v] ELSE m[i]]
    ELSE Append(m, [key |-> k, val |-> v])

(***************************************************************************)
(* Route specs.  A spec is a record that has some of the fields handler,   *)
(* method, path and pathPrefix; `"path" in spec` is "path" \in DOMAIN spec.*)
(***************************************************************************)
\* the routable methods with HEAD among them
ROUTABLE_HTTP_METHODS_AND_HEAD ==
    <<"GET", "POST", "PUT", "DELETE", "OPTIONS", "PATCH", "HEAD">>

ROUTABLE_HTTP_METHODS == <<"GET", "POST", "PUT", "DELETE", "OPTIONS", "PATCH">>

\* Array.prototype.includes
Includes(arr, x) == \E i \in 1..Len(arr) : arr[i] = x

\* normalizeMethod without the HEAD alias
normalizeMethodAsIs(method) == method

normalizeMethod(method) == IF method = "HEAD" THEN "GET" ELSE method

\* the specs that are tried: every combination of a present or absent
\* handler and method with no path field, a path, a pathPrefix, or both
\* (both then holding the same string)
RouteSpecs ==
    LET hm == {[x \in {} |-> x]}
              \cup {[handler |-> h] : h \in Handlers}
              \cup {[method |-> m] : m \in MethodInputs}
              \cup {[handler |-> h, method |-> m] : h \in Handlers, m \in MethodInputs}
        pp == {[x \in {} |-> x]}
              \cup {[path |-> s] : s \in Strings}
              \cup {[pathPrefix |-> s] : s \in Strings}
              \cup {[path |-> s, pathPrefix |-> s] : s \in Strings}
    IN  {a @@ b : a \in hm, b \in pp}

\* !spec.handler
NoHandler(spec) == "handler" \notin DOMAIN spec

\* !spec.method
NoMethod(spec) == "method" \notin DOMAIN spec \/ spec.method = ""

\* the outcome of a call: the Either it returns and the two maps after it
Outcome(result, ex, pre) ==
    [result |-> result, exactRoutes |-> ex, prefixRoutes |-> pre]

\* RouteExact with the handler stored before the duplicate check is made
RouteExactSetFirst(spec, ex, pre) ==
    IF "pathPrefix" \in DOMAIN spec THEN Outcome("BothPathAndPrefix", ex, pre)
    ELSE IF ~StartsWith(spec.path, <<"/">>)
    THEN Outcome("PathDoesNotStartWithSlash", ex, pre)
    ELSE LET methods == IF MapHas(ex, spec.path) THEN MapGet(ex, spec.path) ELSE <<>>
             stored == MapSet(ex, spec.path, MapSet(methods, spec.method, spec.handler))
         IN  IF MapHas(methods, spec.method)
             THEN Outcome("DuplicateRoute", stored, pre)
             ELSE Outcome("ok", stored, pre)

\* the branch of route() for a spec that has a path
RouteExact(spec, ex, pre) ==
    IF "pathPrefix" \in DOMAIN spec THEN Outcome("BothPathAndPrefix", ex, pre)
    ELSE IF ~StartsWith(spec.path, <<"/">>)
    THEN Outcome("PathDoesNotStartWithSlash", ex, pre)
    ELSE LET methods == IF MapHas(ex, spec.path) THEN MapGet(ex, spec.path) ELSE <<>>
         IN  IF MapHas(methods, spec.method)
             THEN Outcome("DuplicateRoute", ex, pre)
             ELSE Outcome("ok",
                          MapSet(ex, spec.path, MapSet(methods, spec.method, spec.handler)),
                          pre)

\* RoutePrefix with the two slash checks in the other order
RoutePrefixEndFirst(spec, ex, pre) ==
    IF ~EndsWith(spec.pathPrefix, <<"/">>)
    THEN Outcome("PrefixDoesNotEndWithSlash", ex, pre)
    ELSE IF ~StartsWith(spec.pathPrefix, <<"/">>)
    THEN Outcome("PrefixDoesNotStartWithSlash", ex, pre)
    ELSE LET prefixes == IF MapHas(pre, spec.method) THEN MapGet(pre, spec.method) ELSE <<>>
         IN  IF MapHas(prefixes, spec.pathPrefix)
             THEN Outcome("DuplicatePrefix", ex, pre)
             ELSE Outcome("ok",
                          ex,
                          MapSet(pre, spec.method,
                                 MapSet(prefixes, spec.pathPrefix, spec.handler)))

\* RoutePrefix with a prefix also counted as a duplicate when the same string
\* is an exact path of the method
RoutePrefixOneNamespace(spec, ex, pre) ==
    IF ~StartsWith(spec.pathPrefix, <<"/">>)
    THEN Outcome("PrefixDoesNotStartWithSlash", ex, pre)
    ELSE IF ~EndsWith(spec.pathPrefix, <<"/">>)
    THEN Outcome("PrefixDoesNotEndWithSlash", ex, pre)
    ELSE LET prefixes == IF MapHas(pre, spec.method) THEN MapGet(pre, spec.method) ELSE <<>>
             exact == IF MapHas(ex, spec.pathPrefix) THEN MapGet(ex, spec.pathPrefix) ELSE <<>>
         IN  IF MapHas(prefixes, spec.pathPrefix) \/ MapHas(exact, spec.method)
             THEN Outcome("DuplicatePrefix", ex, pre)
             ELSE Outcome("ok",
                          ex,
                          MapSet(pre, spec.method,
                                 MapSet(prefixes, spec.pathPrefix, spec.handler)))

\* the branch of route() for a spec that has a pathPrefix and no path
RoutePrefix(spec, ex, pre) ==
    IF ~StartsWith(spec.pathPrefix, <<"/">>)
    THEN Outcome("PrefixDoesNotStartWithSlash", ex, pre)
    ELSE IF ~EndsWith(spec.pathPrefix, <<"/">>)
    THEN Outcome("PrefixDoesNotEndWithSlash", ex, pre)
    ELSE LET prefixes == IF MapHas(pre, spec.method) THEN MapGet(pre, spec.method) ELSE <<>>
         IN  IF MapHas(prefixes, spec.pathPrefix)
             THEN Outcome("DuplicatePrefix", ex, pre)
             ELSE Outcome("ok",
                          ex,
                          MapSet(pre, spec.method,
                                 MapSet(prefixes, spec.pathPrefix, spec.handler)))

\* HttpRouter.route: Either.gen returns the first Left that is yielded
route(spec, ex, pre) ==
    IF NoHandler(spec) THEN Outcome("MissingHandler", ex, pre)
    ELSE IF NoMethod(spec) THEN Outcome("MissingMethod", ex, pre)
    ELSE IF ~Includes(ROUTABLE_HTTP_METHODS, spec.method)
    THEN Outcome("InvalidMethod", ex, pre)
    ELSE IF "path" \in DOMAIN spec THEN RouteExact(spec, ex, pre)
    ELSE IF "pathPrefix" \in DOMAIN spec THEN RoutePrefix(spec, ex, pre)
    ELSE Outcome("BothPathAndPrefix", ex, pre)

(***************************************************************************)
(* getRoutes and lookup.                                                   *)
(***************************************************************************)
RECURSIVE Flatten(_)
\* the concatenation of a sequence of sequences (Array.prototype.flatMap)
Flatten(ss) == IF ss = <<>> THEN <<>> ELSE Head(ss) \o Flatten(Tail(ss))

\* `${pathPrefix}*`
Star(pathPrefix) == Append(pathPrefix, "*")

\* the keys of exactRoutes left in insertion order
ExactPathsAsInserted(ex) == MapKeys(ex)

\* [...this.exactRoutes.keys()].sort()
ExactPaths(ex) == SortPaths(MapKeys(ex))

\* HttpRouter.getRoutes
getRoutes(ex, pre) ==
    LET exactPaths == ExactPaths(ex)
        exactOf(path) ==
            LET ms == SortMethods(MapKeys(MapGet(ex, path)))
            IN  [i \in 1..Len(ms) |-> <<path, ms[i], MapGet(MapGet(ex, path), ms[i])>>]
        prefixPathMethods == SortMethods(MapKeys(pre))
        prefixesOf(method) ==
            LET ps == SortPaths(MapKeys(MapGet(pre, method)))
            IN  [i \in 1..Len(ps) |->
                    <<Star(ps[i]), method, MapGet(MapGet(pre, method), ps[i])>>]
    IN  Flatten([i \in 1..Len(exactPaths) |-> exactOf(exactPaths[i])])
        \o Flatten([i \in 1..Len(prefixPathMethods) |-> prefixesOf(prefixPathMethods[i])])

\* Option.none() and Option.some(x)
None == <<>>

Some(x) == <<x>>

\* the comparator of lookup's sort the wrong way round: shorter prefixes first
ShorterFirst(a, b) == Len(a.key) - Len(b.key) < 0

\* the comparator of lookup's sort: a goes before b when
\* prefixB.length - prefixA.length is negative, longer prefixes first
LongerFirst(a, b) == Len(b.key) - Len(a.key) < 0

\* the entries of the prefixes left in insertion order
SortAsInserted(entries) == entries

\* [...prefixes.entries()].sort(([a], [b]) => b.length - a.length)
SortLongestFirst(entries) ==
    StableSort(entries, [a \in Elems(entries), b \in Elems(entries) |-> LongerFirst(a, b)])

\* FirstPrefixMatch with the bare prefix as display path
FirstPrefixMatchBare(path, method, prefixesSorted) ==
    LET hits == {i \in 1..Len(prefixesSorted) : StartsWith(path, prefixesSorted[i].key)}
    IN  IF hits = {} THEN None
        ELSE LET first == CHOOSE i \in hits : \A j \in hits : i <= j
             IN  Some(<<prefixesSorted[first].val, method, prefixesSorted[first].key>>)

\* the first entry of the sorted prefixes that path starts with, if any
FirstPrefixMatch(path, method, prefixesSorted) ==
    LET hits == {i \in 1..Len(prefixesSorted) : StartsWith(path, prefixesSorted[i].key)}
    IN  IF hits = {} THEN None
        ELSE LET first == CHOOSE i \in hits : \A j \in hits : i <= j
             IN  Some(<<prefixesSorted[first].val, method, Star(prefixesSorted[first].key)>>)

\* lookup with the prefixes tried before the exact routes
lookupPrefixFirst(path, method0, ex, pre) ==
    LET method == normalizeMethod(method0)
        hasExact == MapHas(ex, path) /\ MapHas(MapGet(ex, path), method)
        prefixes == IF MapHas(pre, method) THEN MapGet(pre, method) ELSE <<>>
        prefixMatch == FirstPrefixMatch(path, method, SortLongestFirst(prefixes))
    IN  IF prefixMatch # None THEN prefixMatch
        ELSE IF hasExact
        THEN Some(<<MapGet(MapGet(ex, path), method), method, path>>)
        ELSE None

\* HttpRouter.lookup
lookup(path, method0, ex, pre) ==
    LET method == normalizeMethod(method0)
        hasExact == MapHas(ex, path) /\ MapHas(MapGet(ex, path), method)
        prefixes == IF MapHas(pre, method) THEN MapGet(pre, method) ELSE <<>>
        prefixesSorted == SortLongestFirst(prefixes)
    IN  IF hasExact
        THEN Some(<<MapGet(MapGet(ex, path), method), method, path>>)
        ELSE FirstPrefixMatch(path, method, prefixesSorted)

(***************************************************************************)
(* The dispatcher.  runRequest is an Effect: it ends by succeeding with a  *)
(* value, by failing with an error in the error channel, or by dying with  *)
(* a defect (an exception thrown while the generator body runs).           *)
(***************************************************************************)
Succeed(value) == [kind |-> "Succeed", value |-> value]

Fail(error) == [kind |-> "Fail", error |-> error]

Die(defect) == [kind |-> "Die", defect |-> defect]

\* new ConvexError({ data })
ConvexError(data) == [tag |-> "ConvexError", data |-> data]

\* new JSONError({ message })
JSONError(message) == [tag |-> "JSONError", message |-> message]

\* a string used as error data
Text(string) == [string |-> string]

\* the data of the ConvexError of the "outside of a Convex backend" guard
OutsideBackend ==
    Text("The Convex database and auth objects are being used outside of a Convex backend.")

\* the data of the ConvexError made of an UnknownException of the js syscall
UnknownJsSyscall ==
    Text("An unknown error occurred while performing a js syscall")

\* the payload of a ConvexError that the host raises itself
HostPayload == [value |-> "host payload"]

\* the URL strings of the requests: absolute URLs on one origin, with an empty
\* path or one that starts with a slash, and the empty string
Urls ==
    {[origin |-> "https://x", path |-> s] :
        s \in {t \in Strings : Len(t) <= MaxUrlLen /\ (t = <<>> \/ t[1] = "/")}}
    \cup {[origin |-> "", path |-> <<>>]}

\* new URL(url) does not throw
ValidUrl(url) == url.origin # ""

\* new URL(url).pathname: the path, "/" when the URL has none
UrlPathname(url) == IF url.path = <<>> THEN <<"/">> ELSE url.path

\* the methods of the requests
RequestMethods == {"GET", "POST", "HEAD"}

\* the argsStr values: the JSON text of a request envelope, and a text that
\* is not JSON
ArgsStrs ==
    {[json |-> TRUE, value |-> [method |-> m, url |-> u]] : m \in RequestMethods, u \in Urls}
    \cup {[json |-> FALSE]}

\* the route hints (requestRoute); the empty string is no hint
RouteHints == {s \in Strings : Len(s) <= MaxUrlLen}

\* how a call of Convex.jsSyscall ends: no host, a result, an
\* UnknownException, or a ConvexError of the host
SyscallOutcomes == {"NoHost", "ok", "UnknownException", "ConvexError"}

\* what the host returns from Convex.jsSyscall(op, arg)
jsSyscall(op, arg) ==
    IF op = "requestFromConvexJson"
    THEN [kind |-> "Request", method |-> arg.convexJson.method, url |-> arg.convexJson.url]
    ELSE [kind |-> "ConvexJson", response |-> arg.response]

\* performJsSyscall(op, arg), run, when the host call ends with outcome
performJsSyscall(op, arg, outcome) ==
    CASE outcome = "NoHost" -> Fail(ConvexError(OutsideBackend))
      [] outcome = "UnknownException" -> Fail(ConvexError(UnknownJsSyscall))
      [] outcome = "ConvexError" -> Fail(ConvexError(HostPayload))
      [] OTHER -> Succeed(jsSyscall(op, arg))

\* the Effect that performJsSyscall(op, arg) returns, as a value that has
\* not been run
SyscallEffect(op, arg) == [effect |-> "performJsSyscall", op |-> op, arg |-> arg]

\* the value that endpoint.invokeHttpAction(request) returns: the handler's
\* Effect, not yet run
invokeHttpAction(endpoint, request) ==
    [effect |-> "invokeHttpAction", handler |-> endpoint, request |-> request]

\* jsonStringify(value): Right with the JSON text of the value, or Left with
\* a JSONError when JSON.stringify throws
jsonStringify(value, throws) ==
    IF throws THEN Fail(JSONError(Text("TypeError")))
    ELSE Succeed([json |-> value])

\* the 404 Response of a request that no route matches, with a failed status
NotFoundResponseServerError(pathname) ==
    [kind |-> "Response", status |-> 500,
     body |-> <<"No HttpAction routed for ">> \o pathname]

\* new Response(`No HttpAction routed for ${pathname}`, { status: 404 })
NotFoundResponse(pathname) ==
    [kind |-> "Response", status |-> 404,
     body |-> <<"No HttpAction routed for ">> \o pathname]

\* catchAll with the description of the error as the data of every error
CatchAllDescribed(exit) ==
    IF exit.kind = "Fail"
    THEN Fail(ConvexError(Text(exit.error.tag)))
    ELSE exit

\* Effect.catchAll of runRequest: an error of the error channel becomes a
\* ConvexError; a defect is not an error of the error channel
CatchAll(exit) ==
    IF exit.kind = "Fail"
    THEN Fail(ConvexError(IF exit.error.tag = "ConvexError"
                          THEN exit.error.data ELSE exit.error.message))
    ELSE exit

\* what a dispatch did: how the Effect ended, how the generator ended before
\* catchAll, the calls of invokeHttpAction, the syscalls the host ran, and
\* the lookup that was made with its result
Ran(exit, invoked, syscalls, lookedUp, found) ==
    [exit |-> CatchAll(exit), raised |-> exit, invoked |-> invoked,
     syscalls |-> syscalls, lookedUp |-> lookedUp, found |-> found]

\* the call of a js syscall, as the host sees it
Call(op, arg, outcome) == [op |-> op, arg |-> arg, outcome |-> outcome]

\* the lookup path taken from the request URL whatever the hint is
PathnameOfUrl(requestRoute, request) == UrlPathname(request.url)

\* let pathname = requestRoute; if (!pathname || ...) pathname = new
\* URL(request.url).pathname
Pathname(requestRoute, request) ==
    IF requestRoute = <<>> THEN UrlPathname(request.url) ELSE requestRoute

\* HttpRouter.runRequest from the lookup on, the request being decoded
RouteRequest(request, requestRoute, ex, pre, env, decodeCall) ==
    LET useUrl == requestRoute = <<>>
        pathname == Pathname(requestRoute, request)
        method == request.method
        found == lookup(pathname, method, ex, pre)
    IN  IF useUrl /\ ~ValidUrl(request.url)
        THEN Ran(Die("TypeError"), <<>>, <<decodeCall>>, None, None)
        ELSE IF found = None
        THEN LET response == NotFoundResponse(pathname)
                 arg == [response |-> response]
             IN  Ran(performJsSyscall("convexJsonFromResponse", arg, env.encode),
                     <<>>,
                     <<decodeCall, Call("convexJsonFromResponse", arg, env.encode)>>,
                     Some(<<pathname, method>>), found)
        ELSE LET endpoint == found[1][1]
                 piped == invokeHttpAction(endpoint, request)
                 encoding == SyscallEffect("convexJsonFromResponse", [response |-> piped])
             IN  Ran(jsonStringify(encoding, env.stringifyThrows),
                     <<[handler |-> endpoint, request |-> request]>>,
                     <<decodeCall>>,
                     Some(<<pathname, method>>), found)

\* HttpRouter.runRequest
runRequest(argsStr, requestRoute, ex, pre, env) ==
    IF ~argsStr.json
    THEN Ran(Die("SyntaxError"), <<>>, <<>>, None, None)
    ELSE LET arg == [convexJson |-> argsStr.value]
             decoded == performJsSyscall("requestFromConvexJson", arg, env.decode)
             decodeCall == Call("requestFromConvexJson", arg, env.decode)
         IN  IF decoded.kind # "Succeed"
             THEN Ran(decoded, <<>>, IF env.decode = "NoHost" THEN <<>> ELSE <<decodeCall>>,
                      None, None)
             ELSE RouteRequest(decoded.value, requestRoute, ex, pre, env, decodeCall)

\* what the host and JSON.stringify can do during one dispatch: the host is
\* there or not for the whole dispatch, and nothing follows a failed decode
Envs ==
    {[decode |-> d, encode |-> "ok", stringifyThrows |-> FALSE] :
        d \in SyscallOutcomes \ {"ok"}}
    \cup {[decode |-> "ok", encode |-> e, stringifyThrows |-> t] :
            e \in SyscallOutcomes \ {"NoHost"}, t \in BOOLEAN}

(***************************************************************************)
(* The router as a state machine.  route, getRoutes and lookup are         *)
(* synchronous: one call runs to its end before the next one starts.       *)
(* `last` is the call that has just run, with what it returned, until its  *)
(* caller has taken the result.                                            *)
(***************************************************************************)
RECURSIVE Total(_)
\* the number of entries of the inner maps of a two-level map
Total(m) == IF m = <<>> THEN 0 ELSE Len(Head(m).val) + Total(Tail(m))

\* the number of (path, method) and (prefix, method) pairs in the table
NumRoutes(ex, pre) == Total(ex) + Total(pre)

\* no call is returning
Idle == [op |-> "idle"]

\* a dispatch that has not been started
NotStarted == [pc |-> "idle"]

Init ==
    /\ exactRoutes = <<>>
    /\ prefixRoutes = <<>>
    /\ last = Idle
    /\ requests = [i \in 1..MaxRequests |-> NotStarted]
    /\ crons = <<>>

\* a call of route(spec)
Route ==
    /\ last = Idle
    /\ \E spec \in RouteSpecs :
        LET out == route(spec, exactRoutes, prefixRoutes)
        IN  /\ NumRoutes(out.exactRoutes, out.prefixRoutes) <= MaxRoutes
            /\ exactRoutes' = out.exactRoutes
            /\ prefixRoutes' = out.prefixRoutes
            /\ last' = [op |-> "route", spec |-> spec, result |-> out.result]
    /\ UNCHANGED <<requests, crons>>

\* a call of lookup(path, method)
Lookup ==
    /\ last = Idle
    /\ \E path \in Strings, method \in LookupMethods :
        /\ last' = [op |-> "lookup", path |-> path, method |-> method,
                    result |-> lookup(path, method, exactRoutes, prefixRoutes)]
        /\ UNCHANGED <<exactRoutes, prefixRoutes, requests, crons>>

\* a call of getRoutes()
GetRoutes ==
    /\ last = Idle
    /\ last' = [op |-> "getRoutes", result |-> getRoutes(exactRoutes, prefixRoutes)]
    /\ UNCHANGED <<exactRoutes, prefixRoutes, requests, crons>>

\* a dispatch: runRequest(argsStr, requestRoute), run to its end
RunRequest ==
    /\ last = Idle
    /\ \E argsStr \in ArgsStrs, requestRoute \in RouteHints, env \in Envs :
        /\ last' = [op |-> "runRequest", argsStr |-> argsStr, requestRoute |-> requestRoute,
                    host |-> env.decode # "NoHost",
                    ran |-> runRequest(argsStr, requestRoute, exactRoutes, prefixRoutes, env)]
        /\ UNCHANGED <<exactRoutes, prefixRoutes, requests, crons>>

\* the caller takes the result of the call
Return ==
    /\ last # Idle
    /\ last' = Idle
    /\ UNCHANGED <<exactRoutes, prefixRoutes, requests, crons>>

Next == Route \/ Lookup \/ GetRoutes \/ Return

Spec == Init /\ [][Next]_vars

\* registration and dispatch
NextDispatch == Route \/ RunRequest \/ Return

DispatchSpec == Init /\ [][NextDispatch]_vars

(***************************************************************************)
(* Concurrent dispatches.  A dispatch is a fiber: it gives way to the      *)
(* other dispatches while a js syscall of its own is with the host, and    *)
(* runs from one syscall to the next in one piece.  Registration is over   *)
(* when the first dispatch starts.                                         *)
(***************************************************************************)
\* the requests of the concurrent dispatches: the envelopes of the URLs
\* that can be parsed, looked up as the URL gives them
ConcurrentArgs == {a \in ArgsStrs : a.json /\ ValidUrl(a.value.url)}

ConcurrentHints == {<<>>}

\* a dispatch that has ended: what it looked up, what it found, how it ended
Done(argsStr, requestRoute, lookedUp, found, exit) ==
    [pc |-> "done", argsStr |-> argsStr, requestRoute |-> requestRoute,
     lookedUp |-> lookedUp, found |-> found, exit |-> CatchAll(exit).kind]

\* a dispatch whose syscall op is with the host
Waiting(op, argsStr, requestRoute, lookedUp, found) ==
    [pc |-> op, argsStr |-> argsStr, requestRoute |-> requestRoute,
     lookedUp |-> lookedUp, found |-> found]

\* the two maps after a lookup that puts the Map it makes for a method
\* without prefixes into prefixRoutes
TableAfterLookupStored(method0, ex, pre) ==
    LET method == normalizeMethod(method0)
    IN  [exactRoutes |-> ex,
         prefixRoutes |-> IF MapHas(pre, method) THEN pre ELSE MapSet(pre, method, <<>>)]

\* the two maps after lookup(path, method0): lookup sets nothing, the Map of
\* `this.prefixRoutes.get(method) || new Map()` is not stored and the
\* entries are sorted in a copy
TableAfterLookup(method0, ex, pre) == [exactRoutes |-> ex, prefixRoutes |-> pre]

\* no dispatch has started
NoneStarted == \A i \in 1..MaxRequests : requests[i] = NotStarted

\* runRequest up to its first syscall: JSON.parse, then the guard of
\* performJsSyscall and the call of the decode capability
Start(i) ==
    /\ last = Idle
    /\ requests[i] = NotStarted
    /\ \E argsStr \in ConcurrentArgs, requestRoute \in ConcurrentHints, host \in BOOLEAN :
          requests' = [requests EXCEPT ![i] =
              IF ~argsStr.json
              THEN Done(argsStr, requestRoute, None, None, Die("SyntaxError"))
              ELSE IF ~host
              THEN Done(argsStr, requestRoute, None, None,
                        performJsSyscall("requestFromConvexJson",
                                         [convexJson |-> argsStr.value], "NoHost"))
              ELSE Waiting("requestFromConvexJson", argsStr, requestRoute, None, None)]
    /\ UNCHANGED <<exactRoutes, prefixRoutes, last, crons>>

\* the decode capability returns: runRequest goes on to the lookup, and to
\* the encode syscall of the 404 or to the handler
Decoded(i) ==
    /\ requests[i].pc = "requestFromConvexJson"
    /\ \E outcome \in SyscallOutcomes \ {"NoHost"} :
      \E throws \in IF outcome = "ok" THEN BOOLEAN ELSE {FALSE} :
        LET r == requests[i]
            decoded == performJsSyscall("requestFromConvexJson",
                                        [convexJson |-> r.argsStr.value], outcome)
            request == decoded.value
            pathname == Pathname(r.requestRoute, request)
            found == lookup(pathname, request.method, exactRoutes, prefixRoutes)
            after == TableAfterLookup(request.method, exactRoutes, prefixRoutes)
            lookedUp == Some(<<pathname, request.method>>)
        IN  IF decoded.kind # "Succeed"
            THEN /\ requests' = [requests EXCEPT ![i] =
                        Done(r.argsStr, r.requestRoute, None, None, decoded)]
                 /\ UNCHANGED <<exactRoutes, prefixRoutes>>
            ELSE IF r.requestRoute = <<>> /\ ~ValidUrl(request.url)
            THEN /\ requests' = [requests EXCEPT ![i] =
                        Done(r.argsStr, r.requestRoute, None, None, Die("TypeError"))]
                 /\ UNCHANGED <<exactRoutes, prefixRoutes>>
            ELSE /\ requests' = [requests EXCEPT ![i] =
                        IF found = None
                        THEN Waiting("convexJsonFromResponse", r.argsStr, r.requestRoute,
                                     lookedUp, found)
                        ELSE Done(r.argsStr, r.requestRoute, lookedUp, found,
                                  jsonStringify(
                                      SyscallEffect("convexJsonFromResponse",
                                          [response |-> invokeHttpAction(found[1][1], request)]),
                                      throws))]
                 /\ exactRoutes' = after.exactRoutes
                 /\ prefixRoutes' = after.prefixRoutes
    /\ UNCHANGED <<last, crons>>

\* the encode capability returns the encoded 404, or fails
Encoded(i) ==
    /\ requests[i].pc = "convexJsonFromResponse"
    /\ \E outcome \in SyscallOutcomes \ {"NoHost"} :
        LET r == requests[i]
            arg == [response |-> NotFoundResponse(r.lookedUp[1][1])]
        IN  requests' = [requests EXCEPT ![i] =
                Done(r.argsStr, r.requestRoute, r.lookedUp, r.found,
                     performJsSyscall("convexJsonFromResponse", arg, outcome))]
    /\ UNCHANGED <<exactRoutes, prefixRoutes, last, crons>>

\* the path or prefix a spec gives is no longer than the longest URL path of
\* a request
WithinUrls(spec) ==
    /\ "path" \in DOMAIN spec => Len(spec.path) <= MaxUrlLen
    /\ "pathPrefix" \in DOMAIN spec => Len(spec.pathPrefix) <= MaxUrlLen

\* registration, while no dispatch has started, of the routes that a request
\* can reach
Registration == NoneStarted /\ ((Route /\ WithinUrls(last'.spec)) \/ Return)

\* a step of one of the dispatches
Dispatching == \E i \in 1..MaxRequests : Start(i) \/ Decoded(i) \/ Encoded(i)

NextConcurrent == Registration \/ Dispatching

ConcurrentSpec == Init /\ [][NextConcurrent]_vars

(***************************************************************************)
(* Cron jobs.  crons is the Crons.crons record, its keys in the order they *)
(* were set.  An Either is Right with a value or Left with an error.       *)
(***************************************************************************)
Right(value) == [tag |-> "Right", value |-> value]

Left(error) == [tag |-> "Left", error |-> error]

\* new CronError({ message })
CronError(message) == [tag |-> "CronError", message |-> message]

\* a number: an integer n, or a number that is not an integer
Integer(n) == [integer |-> TRUE, n |-> n]

NotInteger == [integer |-> FALSE]

\* the numbers the schedules are tried with
Numbers == {Integer(0), Integer(30), NotInteger}

\* the identifiers: two of printable ASCII characters, and one that holds a
\* control character
Identifiers == {<<"a">>, <<"b">>, <<"\t">>}

\* the characters from ' ' to '~' that identifiers are made of here
Printable == {"a", "b"}

\* the function references: one to a function, and one that has no name
FunctionReferences == {"f", ""}

DAYS_OF_WEEK ==
    <<"sunday", "monday", "tuesday", "wednesday", "thursday", "friday", "saturday">>

validateIntervalNumber(n) ==
    IF ~n.integer \/ n.n <= 0
    THEN Left(CronError(<<"Interval must be an integer greater than 0">>))
    ELSE Right(n)

validatedDayOfMonth(n) ==
    IF ~n.integer \/ n.n < 1 \/ n.n > 31
    THEN Left(CronError(<<"Day of month must be an integer from 1 to 31">>))
    ELSE Right(n)

validatedDayOfWeek(s) ==
    IF ~Includes(DAYS_OF_WEEK, s)
    THEN Left(CronError(<<"Day of week must be a string like monday.">>))
    ELSE Right(s)

validatedHourOfDay(n) ==
    IF ~n.integer \/ n.n < 0 \/ n.n > 23
    THEN Left(CronError(<<"Hour of day must be an integer from 0 to 23">>))
    ELSE Right(n)

validatedMinuteOfHour(n) ==
    IF ~n.integer \/ n.n < 0 \/ n.n > 59
    THEN Left(CronError(<<"Minute of hour must be an integer from 0 to 59">>))
    ELSE Right(n)

validatedCronString(s) == s

\* s.match(/^[ -~]*$/)
validatedCronIdentifier(s) ==
    IF \E i \in 1..Len(s) : s[i] \notin Printable
    THEN Left(CronError(<<"Invalid cron identifier ", s>>))
    ELSE Right(s)

\* getFunctionName(functionReference): the name, or a FunctionReferenceError
getFunctionName(functionReference) ==
    IF functionReference = ""
    THEN Left([tag |-> "FunctionReferenceError",
               message |-> <<"not a function reference">>])
    ELSE Right(functionReference)

\* what a call on a Crons object gives: the Either it returns, and crons
\* after it
CronOutcome(result, cr) == [result |-> result, crons |-> cr]

\* Crons.schedule, called without args
schedule(cronIdentifier, sched, functionReference, cr) ==
    LET id == validatedCronIdentifier(cronIdentifier)
        functionName == getFunctionName(functionReference)
    IN  IF id.tag = "Left" THEN CronOutcome(Left(CronError(id.error.message)), cr)
        ELSE IF functionName.tag = "Left"
        THEN CronOutcome(Left(CronError(functionName.error.message)), cr)
        ELSE IF MapHas(cr, id.value)
        THEN CronOutcome(
                 Left(CronError(<<"Cron identifier registered twice: ", cronIdentifier>>)),
                 cr)
        ELSE CronOutcome(
                 Right("undefined"),
                 MapSet(cr, id.value,
                        [name |-> functionName.value, args |-> <<"{}">>,
                         schedule |-> sched]))

\* Crons.interval: the Either of this.schedule(...) is not yielded, so the
\* generator returns Right whatever schedule returned
interval(cronIdentifier, s, functionReference, cr) ==
    LET hasSeconds == "seconds" \in DOMAIN s
        hasMinutes == "minutes" \in DOMAIN s
        hasHours == "hours" \in DOMAIN s
        total == Cardinality(DOMAIN s \cap {"seconds", "minutes", "hours"})
        checked == IF hasSeconds THEN validateIntervalNumber(s.seconds)
                   ELSE IF hasMinutes THEN validateIntervalNumber(s.minutes)
                   ELSE validateIntervalNumber(s.hours)
    IN  IF total # 1
        THEN CronOutcome(
                 Left(CronError(<<"Must specify one of seconds, minutes, or hours">>)), cr)
        ELSE IF checked.tag = "Left" THEN CronOutcome(checked, cr)
        ELSE CronOutcome(
                 Right("undefined"),
                 schedule(cronIdentifier, s @@ [type |-> "interval"],
                          functionReference, cr).crons)

\* Crons.hourly
hourly(cronIdentifier, s, functionReference, cr) ==
    LET minuteUTC == validatedMinuteOfHour(s.minuteUTC)
    IN  IF minuteUTC.tag = "Left" THEN CronOutcome(minuteUTC, cr)
        ELSE schedule(cronIdentifier, [minuteUTC |-> minuteUTC.value, type |-> "hourly"],
                      functionReference, cr)

\* Crons.daily
daily(cronIdentifier, s, functionReference, cr) ==
    LET hourUTC == validatedHourOfDay(s.hourUTC)
        minuteUTC == validatedMinuteOfHour(s.minuteUTC)
    IN  IF hourUTC.tag = "Left" THEN CronOutcome(hourUTC, cr)
        ELSE IF minuteUTC.tag = "Left" THEN CronOutcome(minuteUTC, cr)
        ELSE schedule(cronIdentifier,
                      [hourUTC |-> hourUTC.value, minuteUTC |-> minuteUTC.value,
                       type |-> "daily"],
                      functionReference, cr)

\* Crons.weekly
weekly(cronIdentifier, s, functionReference, cr) ==
    LET dayOfWeek == validatedDayOfWeek(s.dayOfWeek)
        hourUTC == validatedHourOfDay(s.hourUTC)
        minuteUTC == validatedMinuteOfHour(s.minuteUTC)
    IN  IF dayOfWeek.tag = "Left" THEN CronOutcome(dayOfWeek, cr)
        ELSE IF hourUTC.tag = "Left" THEN CronOutcome(hourUTC, cr)
        ELSE IF minuteUTC.tag = "Left" THEN CronOutcome(minuteUTC, cr)
        ELSE schedule(cronIdentifier,
                      [dayOfWeek |-> dayOfWeek.value, hourUTC |-> hourUTC.value,
                       minuteUTC |-> minuteUTC.value, type |-> "weekly"],
                      functionReference, cr)

\* Crons.monthly
monthly(cronIdentifier, s, functionReference, cr) ==
    LET day == validatedDayOfMonth(s.day)
        hourUTC == validatedHourOfDay(s.hourUTC)
        minuteUTC == validatedMinuteOfHour(s.minuteUTC)
    IN  IF day.tag = "Left" THEN CronOutcome(day, cr)
        ELSE IF hourUTC.tag = "Left" THEN CronOutcome(hourUTC, cr)
        ELSE IF minuteUTC.tag = "Left" THEN CronOutcome(minuteUTC, cr)
        ELSE schedule(cronIdentifier,
                      [day |-> day.value, hourUTC |-> hourUTC.value,
                       minuteUTC |-> minuteUTC.value, type |-> "monthly"],
                      functionReference, cr)

\* Crons.cron
cron(cronIdentifier, c, functionReference, cr) ==
    schedule(cronIdentifier, [cron |-> validatedCronString(c), type |-> "cron"],
             functionReference, cr)

\* the schedules each operation is tried with
IntervalSchedules ==
    UNION {[fields -> Numbers] :
              fields \in {f \in SUBSET {"seconds", "minutes", "hours"} : Cardinality(f) <= 2}}

HourlySchedules == [minuteUTC : Numbers]

DailySchedules == [hourUTC : Numbers, minuteUTC : Numbers]

WeeklySchedules ==
    [dayOfWeek : {"monday", "someday"}, hourUTC : Numbers, minuteUTC : Numbers]

MonthlySchedules == [day : Numbers, hourUTC : Numbers, minuteUTC : Numbers]

CronStrings == {"15 7 * * *"}

\* the call of the operation op of the Crons object
CronCall(op, cronIdentifier, s, functionReference, cr) ==
    CASE op = "interval" -> interval(cronIdentifier, s, functionReference, cr)
      [] op = "hourly" -> hourly(cronIdentifier, s, functionReference, cr)
      [] op = "daily" -> daily(cronIdentifier, s, functionReference, cr)
      [] op = "weekly" -> weekly(cronIdentifier, s, functionReference, cr)
      [] op = "monthly" -> monthly(cronIdentifier, s, functionReference, cr)
      [] op = "cron" -> cron(cronIdentifier, s, functionReference, cr)

\* the call of op is made: crons is what the call leaves, and last is the
\* call with the Either it returned
Called(op, cronIdentifier, s, functionReference) ==
    LET out == CronCall(op, cronIdentifier, s, functionReference, crons)
    IN  /\ crons' = out.crons
        /\ last' = [op |-> op, cronIdentifier |-> cronIdentifier, schedule |-> s,
                    functionReference |-> functionReference, result |-> out.result]
        /\ UNCHANGED <<exactRoutes, prefixRoutes, requests>>

\* a call of crons.interval
Interval ==
    /\ last = Idle
    /\ \E id \in Identifiers, s \in IntervalSchedules, f \in FunctionReferences :
          Called("interval", id, s, f)

\* a call of crons.hourly
Hourly ==
    /\ last = Idle
    /\ \E id \in Identifiers, s \in HourlySchedules, f \in FunctionReferences :
          Called("hourly", id, s, f)

\* a call of crons.daily
Daily ==
    /\ last = Idle
    /\ \E id \in Identifiers, s \in DailySchedules, f \in FunctionReferences :
          Called("daily", id, s, f)

\* a call of crons.weekly
Weekly ==
    /\ last = Idle
    /\ \E id \in Identifiers, s \in WeeklySchedules, f \in FunctionReferences :
          Called("weekly", id, s, f)

\* a call of crons.monthly
Monthly ==
    /\ last = Idle
    /\ \E id \in Identifiers, s \in MonthlySchedules, f \in FunctionReferences :
          Called("monthly", id, s, f)

\* a call of crons.cron
Cron ==
    /\ last = Idle
    /\ \E id \in Identifiers, s \in CronStrings, f \in FunctionReferences :
          Called("cron", id, s, f)

NextCrons == Interval \/ Hourly \/ Daily \/ Weekly \/ Monthly \/ Cron \/ Return

CronSpec == Init /\ [][NextCrons]_vars

(***************************************************************************)
(* The vocabulary of the properties: what is registered in the table, read *)
(* off the two maps entry by entry.                                        *)
(***************************************************************************)
\* the handlers stored for the exact pair (path, method): none or one
ExactHandlers(ex, path, method) ==
    {ex[ij[1]].val[ij[2]].val : ij \in
        {ij \in (1..Len(ex)) \X (1..MaxRoutes + 1) :
            /\ ij[2] <= Len(ex[ij[1]].val)
            /\ ex[ij[1]].key = path
            /\ ex[ij[1]].val[ij[2]].key = method}}

\* the handlers stored for the prefix pair (prefix, method): none or one
PrefixHandlers(pre, prefix, method) ==
    {pre[ij[1]].val[ij[2]].val : ij \in
        {ij \in (1..Len(pre)) \X (1..MaxRoutes + 1) :
            /\ ij[2] <= Len(pre[ij[1]].val)
            /\ pre[ij[1]].key = method
            /\ pre[ij[1]].val[ij[2]].key = prefix}}

\* the six methods a route can be registered under
SixMethods == {"GET", "POST", "PUT", "DELETE", "OPTIONS", "PATCH"}

\* a spec that passes every rule that does not look at the table
WellFormedExact(spec) ==
    /\ DOMAIN spec = {"handler", "method", "path"}
    /\ spec.method \in SixMethods
    /\ spec.path # <<>>
    /\ spec.path[1] = "/"

WellFormedPrefix(spec) ==
    /\ DOMAIN spec = {"handler", "method", "pathPrefix"}
    /\ spec.method \in SixMethods
    /\ spec.pathPrefix # <<>>
    /\ spec.pathPrefix[1] = "/"
    /\ spec.pathPrefix[Len(spec.pathPrefix)] = "/"

\* HEAD stands for GET
Aliased(method) == IF method = "HEAD" THEN "GET" ELSE method

(***************************************************************************)
(* C1.  A call of route() that returns an error leaves exactRoutes and     *)
(* prefixRoutes exactly as they were: no key added, no inner map created,  *)
(* no handler replaced.                                                    *)
(***************************************************************************)
C1_FailedRouteKeepsTable ==
    [][(last'.op = "route" /\ last'.result # "ok")
        => (exactRoutes' = exactRoutes /\ prefixRoutes' = prefixRoutes)]_vars

\* a duplicate exact route was rejected, with the other handler, on a table
\* that holds routes
C1_Witness ==
    /\ last.op = "route"
    /\ last.result = "DuplicateRoute"
    /\ ExactHandlers(exactRoutes, last.spec.path, last.spec.method) # {last.spec.handler}

(***************************************************************************)
(* C2.  route() reports the first rule that fails, in the order            *)
(* MissingHandler, MissingMethod, InvalidMethod, BothPathAndPrefix, then   *)
(* PathDoesNotStartWithSlash, DuplicateRoute for an exact route and        *)
(* PrefixDoesNotStartWithSlash, PrefixDoesNotEndWithSlash, DuplicatePrefix *)
(* for a prefix route; a spec that breaks no rule succeeds and its handler *)
(* is in the table afterwards.                                             *)
(***************************************************************************)
\* the rules in the order of the claim
RuleOrder ==
    <<"MissingHandler", "MissingMethod", "InvalidMethod", "BothPathAndPrefix",
      "PathDoesNotStartWithSlash", "DuplicateRoute",
      "PrefixDoesNotStartWithSlash", "PrefixDoesNotEndWithSlash", "DuplicatePrefix">>

\* spec breaks the rule on the table (ex, pre)
Breaks(rule, spec, ex, pre) ==
    LET hasPath == "path" \in DOMAIN spec
        hasPrefix == "pathPrefix" \in DOMAIN spec
        hasMethod == "method" \in DOMAIN spec
    IN  CASE rule = "MissingHandler" -> "handler" \notin DOMAIN spec
          [] rule = "MissingMethod" -> ~hasMethod \/ spec.method = ""
          [] rule = "InvalidMethod" -> hasMethod /\ spec.method \notin SixMethods
          [] rule = "BothPathAndPrefix" -> hasPath = hasPrefix
          [] rule = "PathDoesNotStartWithSlash" ->
                hasPath /\ (spec.path = <<>> \/ spec.path[1] # "/")
          [] rule = "DuplicateRoute" ->
                hasPath /\ hasMethod /\ ExactHandlers(ex, spec.path, spec.method) # {}
          [] rule = "PrefixDoesNotStartWithSlash" ->
                hasPrefix /\ (spec.pathPrefix = <<>> \/ spec.pathPrefix[1] # "/")
          [] rule = "PrefixDoesNotEndWithSlash" ->
                hasPrefix /\ (spec.pathPrefix = <<>>
                              \/ spec.pathPrefix[Len(spec.pathPrefix)] # "/")
          [] rule = "DuplicatePrefix" ->
                hasPrefix /\ hasMethod
                /\ PrefixHandlers(pre, spec.pathPrefix, spec.method) # {}

\* the rules spec breaks, by position in the order
Broken(spec, ex, pre) ==
    {i \in 1..Len(RuleOrder) : Breaks(RuleOrder[i], spec, ex, pre)}

\* what the claim says route(spec) returns on the table (ex, pre)
Verdict(spec, ex, pre) ==
    LET broken == Broken(spec, ex, pre)
    IN  IF broken = {} THEN "ok"
        ELSE RuleOrder[CHOOSE i \in broken : \A j \in broken : i <= j]

C2_FirstFailingRule ==
    [][last'.op = "route" =>
        /\ last'.result = Verdict(last'.spec, exactRoutes, prefixRoutes)
        /\ (last'.result = "ok" /\ "path" \in DOMAIN last'.spec) =>
              ExactHandlers(exactRoutes', last'.spec.path, last'.spec.method)
                  = {last'.spec.handler}
        /\ (last'.result = "ok" /\ "pathPrefix" \in DOMAIN last'.spec) =>
              PrefixHandlers(prefixRoutes', last'.spec.pathPrefix, last'.spec.method)
                  = {last'.spec.handler}]_vars

\* a prefix that neither starts nor ends with a slash was answered with the
\* earlier of the two errors
C2_Witness ==
    /\ last.op = "route"
    /\ Cardinality(Broken(last.spec, exactRoutes, prefixRoutes)) >= 2
    /\ last.result = "PrefixDoesNotStartWithSlash"

(***************************************************************************)
(* C3.  Registering an exact (path, method) pair that is registered yields *)
(* DuplicateRoute, registering a (prefix, method) pair that is registered  *)
(* yields DuplicatePrefix, and the two namespaces never collide: a string  *)
(* that is a prefix of the method can still be registered as an exact path *)
(* of that method, and the other way round.                                *)
(***************************************************************************)
C3_DuplicatesPerNamespace ==
    [][last'.op = "route" =>
        /\ WellFormedExact(last'.spec) =>
              last'.result =
                  IF ExactHandlers(exactRoutes, last'.spec.path, last'.spec.method) # {}
                  THEN "DuplicateRoute" ELSE "ok"
        /\ WellFormedPrefix(last'.spec) =>
              last'.result =
                  IF PrefixHandlers(prefixRoutes, last'.spec.pathPrefix, last'.spec.method) # {}
                  THEN "DuplicatePrefix" ELSE "ok"]_vars

\* a prefix was registered under a method that has the same string as an
\* exact path
C3_Witness ==
    /\ last.op = "route"
    /\ last.result = "ok"
    /\ "pathPrefix" \in DOMAIN last.spec
    /\ ExactHandlers(exactRoutes, last.spec.pathPrefix, last.spec.method) # {}

(***************************************************************************)
(* C4.  When an exact route is registered for (path, method) with HEAD     *)
(* read as GET, lookup(path, method) returns that route's handler with the *)
(* path itself as display path, whatever prefixes are registered for the   *)
(* method.                                                                 *)
(***************************************************************************)
C4_ExactWins ==
    last.op = "lookup" =>
        \A h \in ExactHandlers(exactRoutes, last.path, Aliased(last.method)) :
            last.result = <<(<<h, Aliased(last.method), last.path>>)>>

\* the path looked up is an exact route and also a prefix of the method,
\* held by another handler
C4_Witness ==
    /\ last.op = "lookup"
    /\ ExactHandlers(exactRoutes, last.path, Aliased(last.method)) # {}
    /\ PrefixHandlers(prefixRoutes, last.path, Aliased(last.method)) # {}
    /\ PrefixHandlers(prefixRoutes, last.path, Aliased(last.method))
          # ExactHandlers(exactRoutes, last.path, Aliased(last.method))

(***************************************************************************)
(* C5.  With no exact route for (path, method), lookup returns the handler *)
(* of the longest prefix registered under the method that path starts      *)
(* with, displayed as that prefix followed by '*', and returns no match if *)
(* and only if no prefix registered under the method is a prefix of path.  *)
(***************************************************************************)
\* the prefixes registered under the method that path starts with
PrefixCandidates(pre, path, method) ==
    {q \in Strings : PrefixHandlers(pre, q, method) # {} /\ StartsWith(path, q)}

C5_LongestPrefix ==
    (last.op = "lookup"
     /\ ExactHandlers(exactRoutes, last.path, Aliased(last.method)) = {}) =>
        LET m == Aliased(last.method)
            cands == PrefixCandidates(prefixRoutes, last.path, m)
        IN  /\ (last.result = <<>>) <=> (cands = {})
            /\ \A q \in cands :
                  (\A r \in cands : Len(r) <= Len(q)) =>
                      \A h \in PrefixHandlers(prefixRoutes, q, m) :
                          last.result = <<(<<h, m, q \o <<"*">> >>)>>

\* two prefixes of the path are registered under the method for different
\* handlers, the shorter one first
C5_Witness ==
    /\ last.op = "lookup"
    /\ ExactHandlers(exactRoutes, last.path, Aliased(last.method)) = {}
    /\ Cardinality(PrefixCandidates(prefixRoutes, last.path, Aliased(last.method))) >= 2
    /\ Len(prefixRoutes[1].val[1].key) < Len(prefixRoutes[1].val[2].key)
    /\ prefixRoutes[1].val[1].val # prefixRoutes[1].val[2].val

(***************************************************************************)
(* C6.  lookup(path, "HEAD") returns what lookup(path, "GET") returns on   *)
(* the same table: the same handler, method GET and display path, or the   *)
(* same absence.                                                           *)
(***************************************************************************)
C6_HeadIsGet ==
    (last.op = "lookup" /\ last.method = "HEAD") =>
        /\ last.result = lookup(last.path, "GET", exactRoutes, prefixRoutes)
        /\ last.result # <<>> => last.result[1][2] = "GET"

\* a HEAD lookup found a route
C6_Witness ==
    /\ last.op = "lookup"
    /\ last.method = "HEAD"
    /\ last.result # <<>>

(***************************************************************************)
(* C7.  getRoutes() lists every exact route before every prefix route,     *)
(* the exact routes in ascending order of path and then method, the prefix *)
(* routes in ascending order of method and then prefix, each prefix shown  *)
(* as the prefix followed by '*', whatever the order of registration.      *)
(***************************************************************************)
\* the number of exact routes
NumExact == Total(exactRoutes)

\* a display path without its last character
Unstarred(display) == SubSeq(display, 1, Len(display) - 1)

\* the listing r shows the table: first the exact routes, then the prefixes
\* with a '*', each with its method and handler
ListsTable(r) ==
    /\ Len(r) = NumRoutes(exactRoutes, prefixRoutes)
    /\ \A i \in 1..Len(r) :
          IF i <= NumExact
          THEN ExactHandlers(exactRoutes, r[i][1], r[i][2]) = {r[i][3]}
          ELSE /\ r[i][1] # <<>>
               /\ r[i][1][Len(r[i][1])] = "*"
               /\ PrefixHandlers(prefixRoutes, Unstarred(r[i][1]), r[i][2]) = {r[i][3]}

\* the listing r is in the order of the claim
InListingOrder(r) ==
    \A i, j \in 1..Len(r) :
        i < j =>
            IF j <= NumExact
            THEN \/ StrLess(r[i][1], r[j][1])
                 \/ (r[i][1] = r[j][1] /\ MethodLess(r[i][2], r[j][2]))
            ELSE IF i > NumExact
            THEN \/ MethodLess(r[i][2], r[j][2])
                 \/ (r[i][2] = r[j][2] /\ StrLess(Unstarred(r[i][1]), Unstarred(r[j][1])))
            ELSE TRUE

C7_ListingSorted ==
    last.op = "getRoutes" => (ListsTable(last.result) /\ InListingOrder(last.result))

\* two exact paths were registered with the greater one first, and listed
C7_Witness ==
    /\ last.op = "getRoutes"
    /\ Len(exactRoutes) = 2
    /\ StrLess(exactRoutes[2].key, exactRoutes[1].key)
    /\ Len(last.result) = 2

(***************************************************************************)
(* The vocabulary of the dispatch properties.                              *)
(***************************************************************************)
\* the dispatch looked a path up and no route matched
NoMatch == last.op = "runRequest" /\ last.ran.lookedUp # <<>> /\ last.ran.found = <<>>

\* the dispatch looked a path up and a route matched
Matched == last.op = "runRequest" /\ last.ran.lookedUp # <<>> /\ last.ran.found # <<>>

\* the body of a response names the path: the path is written out in it
Names(body, path) ==
    \E i \in 1..Len(body) :
        /\ i + Len(path) - 1 <= Len(body)
        /\ SubSeq(body, i, i + Len(path) - 1) = path

\* the value is a wire result that holds a response with status 404 whose
\* body names the path
Is404Naming(value, path) ==
    /\ DOMAIN value = {"kind", "response"}
    /\ value.kind = "ConvexJson"
    /\ value.response.status = 404
    /\ Names(value.response.body, path)

\* the dispatch ended in the unified dispatch error
EndedInDispatchError ==
    last.ran.exit.kind = "Fail" /\ last.ran.exit.error.tag = "ConvexError"

(***************************************************************************)
(* C8, as amended.  A dispatch whose lookup matches no route invokes no    *)
(* handler and hands the encode capability a response with status 404      *)
(* whose body names the path that was looked up; it returns the encoded    *)
(* response, and ends in a dispatch error only when the encode capability  *)
(* itself fails.                                                           *)
(***************************************************************************)
C8_NoMatchEncodes404 ==
    NoMatch =>
        LET calls == last.ran.syscalls
            encode == calls[Len(calls)]
        IN  /\ last.ran.invoked = <<>>
            /\ Len(calls) = 2
            /\ encode.op = "convexJsonFromResponse"
            /\ encode.arg.response.status = 404
            /\ Names(encode.arg.response.body, last.ran.lookedUp[1][1])
            /\ IF encode.outcome = "ok"
               THEN /\ last.ran.exit.kind = "Succeed"
                    /\ Is404Naming(last.ran.exit.value, last.ran.lookedUp[1][1])
               ELSE EndedInDispatchError

\* a request for a method without routes was answered with the encoded 404
\* on a table that holds a route of its path
C8_Witness ==
    /\ NoMatch
    /\ last.ran.exit.kind = "Succeed"
    /\ exactRoutes # <<>>
    /\ exactRoutes[1].key = last.ran.lookedUp[1][1]

\* C8 as it was claimed: a dispatch whose lookup matches no route produces a
\* response with status 404 that names the path, invokes no handler and does
\* not end in a dispatch error
C8_NoMatchNeverFails ==
    NoMatch =>
        /\ last.ran.invoked = <<>>
        /\ last.ran.exit.kind = "Succeed"
        /\ Is404Naming(last.ran.exit.value, last.ran.lookedUp[1][1])

(***************************************************************************)
(* C9.  Every failure during a dispatch, in parsing the JSON envelope or   *)
(* the URL, in decoding, invoking or encoding, reaches the caller as the   *)
(* unified dispatch error: a dispatch succeeds or ends in that error, and  *)
(* no other exception leaves it.                                           *)
(***************************************************************************)
C9_OnlyDispatchErrors ==
    last.op = "runRequest" =>
        (last.ran.exit.kind = "Succeed" \/ EndedInDispatchError)

(***************************************************************************)
(* C10.  A dispatch that matches a route invokes the resolved handler      *)
(* exactly once with the decoded request and no other handler, and the     *)
(* value it returns is the result of the encode capability applied to the  *)
(* Response of that handler.                                               *)
(***************************************************************************)
C10_HandlerResponseReturned ==
    Matched =>
        LET calls == last.ran.syscalls
        IN  /\ last.ran.invoked =
                  <<[handler |-> last.ran.found[1][1],
                     request |-> jsSyscall(calls[1].op, calls[1].arg)]>>
            /\ last.ran.exit.kind = "Succeed" =>
                  /\ Len(calls) = 2
                  /\ calls[2].op = "convexJsonFromResponse"
                  /\ calls[2].arg.response.kind = "Response"
                  /\ last.ran.exit.value = jsSyscall(calls[2].op, calls[2].arg)

(***************************************************************************)
(* C11.  In a dispatch, the path given to lookup is the route hint when    *)
(* the hint is a non-empty string, whatever the request URL is, and the    *)
(* pathname of the request URL when the hint is empty; the method given to *)
(* lookup is the method of the decoded request.                            *)
(***************************************************************************)
\* the request that the decode capability returned to the dispatch
DecodedRequest == jsSyscall(last.ran.syscalls[1].op, last.ran.syscalls[1].arg)

C11_LookupPathAndMethod ==
    (last.op = "runRequest" /\ last.ran.lookedUp # <<>>) =>
        /\ last.requestRoute # <<>> => last.ran.lookedUp[1][1] = last.requestRoute
        /\ last.requestRoute = <<>> =>
              /\ ValidUrl(DecodedRequest.url)
              /\ last.ran.lookedUp[1][1] = UrlPathname(DecodedRequest.url)
        /\ last.ran.lookedUp[1][2] = DecodedRequest.method

\* a dispatch with a hint that is not the pathname of its URL found the
\* route registered for the hint
C11_Witness ==
    /\ Matched
    /\ last.requestRoute # <<>>
    /\ ValidUrl(DecodedRequest.url)
    /\ last.requestRoute # UrlPathname(DecodedRequest.url)
    /\ last.ran.found[1][3] = last.requestRoute

(***************************************************************************)
(* The vocabulary of the table invariants.                                 *)
(***************************************************************************)
\* the exact paths stored in the table
StoredPaths(ex) == {ex[i].key : i \in 1..Len(ex)}

\* the prefixes stored in the table
StoredPrefixes(pre) ==
    {pre[ij[1]].val[ij[2]].key : ij \in
        {ij \in (1..Len(pre)) \X (1..MaxRoutes + 1) : ij[2] <= Len(pre[ij[1]].val)}}

\* the methods stored in the table, of exact routes and of prefixes
StoredMethods(ex, pre) ==
    {ex[ij[1]].val[ij[2]].key : ij \in
        {ij \in (1..Len(ex)) \X (1..MaxRoutes + 1) : ij[2] <= Len(ex[ij[1]].val)}}
    \cup {pre[i].key : i \in 1..Len(pre)}

\* every stored path, prefix and method has the shape route() asks for
TableWellFormed ==
    /\ \A s \in StoredPaths(exactRoutes) : s # <<>> /\ s[1] = "/"
    /\ \A s \in StoredPrefixes(prefixRoutes) :
          s # <<>> /\ s[1] = "/" /\ s[Len(s)] = "/"
    /\ StoredMethods(exactRoutes, prefixRoutes) \subseteq SixMethods
    /\ "HEAD" \notin StoredMethods(exactRoutes, prefixRoutes)

\* the call that has just run is route() with method HEAD
RoutedHead ==
    last.op = "route" /\ "method" \in DOMAIN last.spec /\ last.spec.method = "HEAD"

(***************************************************************************)
(* C12, as amended.  In every table reachable by route() calls, every      *)
(* stored exact path starts with '/', every stored prefix starts and ends  *)
(* with '/', and every stored method is one of GET, POST, PUT, DELETE,     *)
(* OPTIONS, PATCH; HEAD is never stored, and route() with method HEAD is   *)
(* always rejected: with InvalidMethod when the spec has a handler, with   *)
(* MissingHandler when it has none.                                        *)
(***************************************************************************)
C12_TableWellFormed ==
    /\ TableWellFormed
    /\ RoutedHead =>
          last.result = IF "handler" \in DOMAIN last.spec
                        THEN "InvalidMethod" ELSE "MissingHandler"

\* a well-formed exact route with method HEAD was rejected on a table that
\* holds a route
C12_Witness ==
    /\ RoutedHead
    /\ DOMAIN last.spec = {"handler", "method", "path"}
    /\ last.spec.path # <<>>
    /\ last.spec.path[1] = "/"
    /\ last.result = "InvalidMethod"
    /\ NumRoutes(exactRoutes, prefixRoutes) > 0

\* C12 as it was claimed: the stored paths, prefixes and methods are well
\* formed, HEAD is never stored, and route() with method HEAD is rejected
\* with InvalidMethod
C12_HeadIsInvalidMethod ==
    /\ TableWellFormed
    /\ RoutedHead => last.result = "InvalidMethod"

(***************************************************************************)
(* C13.  Every dispatch error carries the structured payload of the        *)
(* failure under it, unchanged, when that failure carries one (a           *)
(* ConvexError of the handler or of a host capability), and the plain      *)
(* description string of the failure otherwise.                            *)
(***************************************************************************)
\* a host capability raised a ConvexError of its own during the dispatch
HostRaised ==
    \E i \in 1..Len(last.ran.syscalls) : last.ran.syscalls[i].outcome = "ConvexError"

\* the value is a plain string
IsText(data) == DOMAIN data = {"string"}

C13_PayloadPassedThrough ==
    (last.op = "runRequest" /\ EndedInDispatchError) =>
        LET data == last.ran.exit.error.data
            under == last.ran.raised
        IN  /\ under.kind = "Fail"
            /\ under.error.tag = "ConvexError" => data = under.error.data
            /\ under.error.tag # "ConvexError" =>
                  (data = under.error.message /\ IsText(data))
            /\ IF HostRaised THEN data = HostPayload ELSE IsText(data)

\* the encode capability raised a ConvexError with a payload while the 404
\* of a request was encoded, and the dispatch ended with that payload
C13_Witness ==
    /\ NoMatch
    /\ EndedInDispatchError
    /\ last.ran.syscalls[2].outcome = "ConvexError"
    /\ last.ran.exit.error.data = HostPayload

(***************************************************************************)
(* C14.  Whenever lookup(path, method) returns a match (handler, m,        *)
(* displayPath), the triple (displayPath, m, handler) is an entry of       *)
(* getRoutes() on the same table, and m is the requested method with HEAD  *)
(* read as GET.                                                            *)
(***************************************************************************)
C14_MatchIsListed ==
    (last.op = "lookup" /\ last.result # None) =>
        LET match == last.result[1]
            listing == getRoutes(exactRoutes, prefixRoutes)
        IN  /\ \E i \in 1..Len(listing) : listing[i] = <<match[3], match[2], match[1]>>
            /\ match[2] = Aliased(last.method)

\* a HEAD lookup matched a prefix on a table that lists two routes
C14_Witness ==
    /\ last.op = "lookup"
    /\ last.method = "HEAD"
    /\ last.result # None
    /\ last.result[1][3] # last.path
    /\ Len(getRoutes(exactRoutes, prefixRoutes)) = 2

(***************************************************************************)
(* C15.  lookup and dispatch never modify the routing table, so under any  *)
(* interleaving of concurrent dispatches over a table that is no longer    *)
(* registered into, the outcome of each request (the handler resolved or   *)
(* the 404) is the outcome of running that request alone on the same       *)
(* table.                                                                  *)
(***************************************************************************)
\* a host that answers every call, and a stringification that does not throw
Undisturbed == [decode |-> "ok", encode |-> "ok", stringifyThrows |-> FALSE]

\* what the dispatch of request i finds when it runs alone on the table
Alone(i) ==
    runRequest(requests[i].argsStr, requests[i].requestRoute,
               exactRoutes, prefixRoutes, Undisturbed)

\* request i has made its lookup
LookedUp(i) == requests[i].pc \in {"convexJsonFromResponse", "done"} /\ requests[i].lookedUp # None

\* a step changes the table only if it is a call of route()
OnlyRouteWrites ==
    (exactRoutes' # exactRoutes \/ prefixRoutes' # prefixRoutes) =>
        (last = Idle /\ last'.op = "route" /\ last'.result = "ok")

C15_DispatchesIndependent ==
    /\ [](\A i \in 1..MaxRequests :
            LookedUp(i) =>
                /\ requests[i].lookedUp = Alone(i).lookedUp
                /\ requests[i].found = Alone(i).found)
    /\ [][OnlyRouteWrites]_vars

\* while the 404 of one request is with the host, the other request has run
\* to its end and resolved a handler
C15_Witness ==
    /\ requests[1].pc = "convexJsonFromResponse"
    /\ requests[1].found = None
    /\ requests[2].pc = "done"
    /\ requests[2].found # None
    /\ requests[2].exit = "Succeed"

(***************************************************************************)
(* C16.  The table is append-only: once route() has succeeded for an exact *)
(* (path, method) pair or a (prefix, method) pair, the pair stays          *)
(* registered with the same handler through every later call of route(),   *)
(* successful or failed; nothing deletes or replaces an entry.             *)
(***************************************************************************)
\* every entry of the two-level map m is in the map n, under the same keys
\* with the same value
KeepsEntries(m, n) ==
    \A i \in 1..Len(m) : \A j \in 1..Len(m[i].val) :
        /\ MapHas(n, m[i].key)
        /\ MapHas(MapGet(n, m[i].key), m[i].val[j].key)
        /\ MapGet(MapGet(n, m[i].key), m[i].val[j].key) = m[i].val[j].val

C16_AppendOnly ==
    [][/\ KeepsEntries(exactRoutes, exactRoutes')
       /\ KeepsEntries(prefixRoutes, prefixRoutes')
       /\ NumRoutes(exactRoutes', prefixRoutes') >= NumRoutes(exactRoutes, prefixRoutes)]_vars

\* a second method was registered for a path that holds a route, with
\* another handler
C16_Witness ==
    /\ last.op = "route"
    /\ last.result = "ok"
    /\ Len(exactRoutes) = 1
    /\ Len(exactRoutes[1].val) = 2
    /\ exactRoutes[1].val[1].val # exactRoutes[1].val[2].val

(***************************************************************************)
(* C17.  When the host capability is unavailable, a dispatch ends in a     *)
(* dispatch error whose payload is the guidance string of the "used        *)
(* outside of a Convex backend" guard, and no lookup result is acted on:   *)
(* no handler is invoked and no response is produced.                      *)
(***************************************************************************)
C17_NoHostGuidance ==
    (last.op = "runRequest" /\ ~last.host) =>
        /\ EndedInDispatchError
        /\ last.ran.exit.error.data = OutsideBackend
        /\ last.ran.invoked = <<>>
        /\ last.ran.syscalls = <<>>
        /\ last.ran.lookedUp = None

\* the same for the dispatches whose argsStr is JSON
C17_JsonOnly ==
    (last.op = "runRequest" /\ ~last.host /\ last.argsStr.json) =>
        /\ EndedInDispatchError
        /\ last.ran.exit.error.data = OutsideBackend
        /\ last.ran.invoked = <<>>
        /\ last.ran.syscalls = <<>>
        /\ last.ran.lookedUp = None

(***************************************************************************)
(* C18.  For each of the Crons operations interval, hourly, daily, weekly, *)
(* monthly and cron, a call whose identifier is already registered returns *)
(* a CronError "Cron identifier registered twice" and leaves the job that  *)
(* is stored under the identifier unchanged.  The calls looked at are the  *)
(* ones that register their job when the identifier is free.               *)
(***************************************************************************)
\* the operations of a Crons object that register a job
CronOps == {"interval", "hourly", "daily", "weekly", "monthly", "cron"}

\* the call registers its job on a Crons object that has no jobs
RegistersWhenFree(call) ==
    CronCall(call.op, call.cronIdentifier, call.schedule, call.functionReference, <<>>).crons
        # <<>>

\* the Either is the CronError of an identifier that is registered twice
IsRegisteredTwice(result, cronIdentifier) ==
    /\ result.tag = "Left"
    /\ result.error = CronError(<<"Cron identifier registered twice: ", cronIdentifier>>)

C18_RegisteredTwiceRejected ==
    [][(/\ last'.op \in CronOps
        /\ last = Idle
        /\ MapHas(crons, last'.cronIdentifier)
        /\ RegistersWhenFree(last'))
       => (/\ IsRegisteredTwice(last'.result, last'.cronIdentifier)
           /\ crons' = crons)]_vars

(***************************************************************************)
(* C19.  Registration order does not affect resolution: two tables built   *)
(* from the same set of valid, pairwise non-duplicate route specs in       *)
(* different orders return the same result from lookup for every path and  *)
(* method, and the same getRoutes() listing.                               *)
(***************************************************************************)
\* the specs that the entries of the table were registered with
SpecsOf(ex, pre) ==
    {[path |-> ex[ij[1]].key, method |-> ex[ij[1]].val[ij[2]].key,
      handler |-> ex[ij[1]].val[ij[2]].val] : ij \in
        {ij \in (1..Len(ex)) \X (1..MaxRoutes + 1) : ij[2] <= Len(ex[ij[1]].val)}}
    \cup
    {[pathPrefix |-> pre[ij[1]].val[ij[2]].key, method |-> pre[ij[1]].key,
      handler |-> pre[ij[1]].val[ij[2]].val] : ij \in
        {ij \in (1..Len(pre)) \X (1..MaxRoutes + 1) : ij[2] <= Len(pre[ij[1]].val)}}

\* the orders the specs of a set can be registered in
Orders(specs) ==
    {order \in [1..Cardinality(specs) -> specs] :
        \A i, j \in 1..Cardinality(specs) : order[i] = order[j] => i = j}

RECURSIVE RouteAll(_, _, _)
\* the table after route() is called with each spec of the sequence in turn,
\* from the table (ex, pre); the result is "ok" if every call succeeded
RouteAll(order, ex, pre) ==
    IF order = <<>> THEN Outcome("ok", ex, pre)
    ELSE LET out == route(Head(order), ex, pre)
         IN  IF out.result # "ok" THEN out
             ELSE RouteAll(Tail(order), out.exactRoutes, out.prefixRoutes)

\* the tables built from the specs of the table, one for each order
Rebuilt == {RouteAll(order, <<>>, <<>>) : order \in Orders(SpecsOf(exactRoutes, prefixRoutes))}

C19_OrderIndependent ==
    /\ last.op = "lookup" =>
          \A other \in Rebuilt :
              /\ other.result = "ok"
              /\ last.result = lookup(last.path, last.method,
                                      other.exactRoutes, other.prefixRoutes)
    /\ last.op = "getRoutes" =>
          \A other \in Rebuilt :
              /\ other.result = "ok"
              /\ last.result = getRoutes(other.exactRoutes, other.prefixRoutes)

\* a lookup matched the longer of two prefixes that both match and have
\* different handlers, and one of the orders builds a table that keeps them
\* the other way round
C19_Witness ==
    /\ last.op = "lookup"
    /\ last.result # None
    /\ Cardinality(PrefixCandidates(prefixRoutes, last.path, Aliased(last.method))) = 2
    /\ prefixRoutes[1].val[1].val # prefixRoutes[1].val[2].val
    /\ \E other \in Rebuilt : other.prefixRoutes # prefixRoutes

====
